---- MODULE Spec2Model ----
(***************************************************************************)
(* Model of the asynchronous report pipeline of top-questions:             *)
(*   src/server.ts  analyzeHandler, getReportHandler, errorHandler         *)
(*   src/db.ts      DatabaseService (createReport, updateReport, getReport)*)
(*   src/index.ts   setEnvironmentVariables, analyzeQuestions and helpers  *)
(* Node runs the handlers on one thread: every action below is the code    *)
(* that runs between two awaits of one handler or of one background        *)
(* pipeline; the actions of different requests interleave at the awaits.   *)
(***************************************************************************)
EXTENDS Integers, Sequences, FiniteSets, TLC

(***************************************************************************)
(* Bounds of the model.                                                    *)
(***************************************************************************)
MaxJobs == 2
MaxTop == 1
MaxSummaries == 2
MaxClock == 1
MaxBatches == 3
MaxPending == 2
MaxTurns == 2
MantissaBits == 4
TicksPerDay == 2
StartDay == 40
DaysPerMonth == 30

(***************************************************************************)
(* Program constants.                                                      *)
(***************************************************************************)
DefaultTop == 10
prompt_per_1k == 3
completion_per_1k == 6
HTTP_OK == 200
HTTP_UNAUTHORIZED == 401
HTTP_NOT_FOUND == 404
HTTP_SERVER_ERROR == 500

Jobs == 1..MaxJobs

\* The labels querySchema accepts, and one it does not.
Labels == {"today", "yesterday", "last7", "last30", "alltime", "monthToDate"}
RangeInputs == {"today", "last7", "bogus"}

\* query.top after parseInt: the decimal strings "-1" .. "MaxTop" (a string
\* that is no number is not among the inputs).
TopInputs == -1..MaxTop

\* An optional value (an SQL NULL, an undefined property, an absent JSON key)
\* is the empty sequence; a present one is a one-element sequence.
NULL == <<>>
Some(v) == <<v>>

Min(a, b) == IF a < b THEN a ELSE b
Max(a, b) == IF a > b THEN a ELSE b

(***************************************************************************)
(* Strings.  The question texts a clustering response can carry, their     *)
(* localeCompare order (root collation: "a" < "A " < "b") and              *)
(* toLowerCase().trim().                                                   *)
(***************************************************************************)
ClusterTexts == {"a", "A ", "b"}

Rank(q) == CASE q = "a" -> 1 [] q = "A " -> 2 [] q = "b" -> 3 [] OTHER -> 4

localeCompare(x, y) == Rank(x) - Rank(y)

normalize(q) == IF q = "A " THEN "a" ELSE q

\* The messages of the errors an external collaborator (fetch, the
\* completion client) rejects with: theirs to choose, the empty one included.
ExternalMsgs == {"", "fetch failed"}

MsgInvalidKey == "Invalid Voiceflow API key"
MsgInvalidProject == "Invalid project ID"
MsgValidateFailed == "Failed to validate credentials: statusText"
MsgListFailed == "Failed to fetch transcripts: statusText"
MsgZod == "invalid_enum_value"
MsgSyntax == "Unexpected token in JSON"
MsgType == "Cannot read properties of undefined (reading 'sort')"

(***************************************************************************)
(* State.                                                                  *)
(*   env       the module-level configuration of index.ts, shared by all   *)
(*             requests and pipelines                                      *)
(*   store     the reports table: report id -> row                         *)
(*   clock     new Date()                                                  *)
(*   hpc       where each request's analyzeHandler stands                  *)
(*   local     each request's query, the clock createReport read, and the  *)
(*             status its credential probe was answered with (0: none yet) *)
(*   response  what each request was answered                              *)
(*   ppc, pipe where each background analyzeQuestions() stands, its locals *)
(*   outcome   how each analyzeQuestions() promise settled                  *)
(*   updq      updateReport calls issued and not yet written               *)
(*   calls     number of updateReport calls issued per report id           *)
(* and, written only by the specifications of single operations and of a   *)
(* single observed job further down:                                       *)
(*   input     the arguments of the operation applied                      *)
(*   output    what the operation returned                                 *)
(*   obs       what the collaborators answered the observed job            *)
(***************************************************************************)
VARIABLES env, store, clock, hpc, local, response, ppc, pipe, outcome, updq, calls,
          input, output, obs

server == <<env, store, clock, hpc, local, response, ppc, pipe, outcome, updq, calls>>

aux == <<input, output, obs>>

vars == <<env, store, clock, hpc, local, response, ppc, pipe, outcome, updq, calls,
          input, output, obs>>

NowStart == StartDay * TicksPerDay

(***************************************************************************)
(* src/index.ts: configuration.                                            *)
(***************************************************************************)
\* envVars / env as module initialisation leaves them.
envInit == [TIME_RANGE |-> "last7", TOP_QUESTIONS |-> DefaultTop]

\* env = getConfig(vars): the overrides replace envVars' entries (the handler
\* always gives both); TOP_QUESTIONS goes through parseInt (here already a
\* number), TIME_RANGE through the enum.  PROJECT_ID, VF_API_KEY and
\* OPENAI_API_KEY are read from process.env, which is set: the module would
\* not load otherwise.
setEnvironmentVariables(e, v) ==
  [TIME_RANGE |-> v.TIME_RANGE, TOP_QUESTIONS |-> v.TOP_QUESTIONS]

(***************************************************************************)
(* src/db.ts: the reports table.                                           *)
(***************************************************************************)
Statuses == {"pending", "completed", "failed"}

\* JSON.stringify / JSON.parse of a ClusteringResult: finite numbers, strings,
\* arrays and objects survive the round trip; the text is never empty.
JSONstringify(v) == [json |-> v]
JSONparse(t) == t.json

\* createReport with its INSERT lost: the row is never written.
createReportNoRow(s, id, timeRange, topCount, now) == s

\* createReport as INSERT OR REPLACE: a second row with the same id takes the
\* place of the first.
createReportReplace(s, id, timeRange, topCount, now) ==
  [i \in DOMAIN s \cup {id} |->
    IF i = id
      THEN [status |-> "pending", time_range |-> timeRange, top_count |-> topCount,
            result |-> NULL, error |-> NULL, created_at |-> now, updated_at |-> now]
      ELSE s[i]]

\* INSERT INTO reports (id, status, time_range, top_count, created_at, updated_at):
\* result and error are left NULL.  A second row with the same PRIMARY KEY is refused.
createReport(s, id, timeRange, topCount, now) ==
  IF id \in DOMAIN s
    THEN s
    ELSE [i \in DOMAIN s \cup {id} |->
           IF i = id
             THEN [status |-> "pending", time_range |-> timeRange, top_count |-> topCount,
                   result |-> NULL, error |-> NULL, created_at |-> now, updated_at |-> now]
             ELSE s[i]]

\* The INSERT of a second row with the same PRIMARY KEY fails (SQLITE_CONSTRAINT):
\* db.run rejects and so does createReport.
createReportRejects(s, id) == id \in DOMAIN s

\* JavaScript truthiness of the three optional members of the update.
truthyString(o) == o # NULL /\ o[1] # ""
truthyObject(o) == o # NULL

\* updateReport setting created_at along with updated_at.
updateReportTouchesCreated(s, id, update, now) ==
  IF id \notin DOMAIN s
    THEN s
    ELSE [s EXCEPT ![id] =
           [status |-> IF truthyString(update.status) THEN update.status[1] ELSE @.status,
            time_range |-> @.time_range,
            top_count |-> @.top_count,
            result |-> IF truthyObject(update.result)
                         THEN Some(JSONstringify(update.result[1])) ELSE @.result,
            error |-> IF truthyString(update.error) THEN Some(update.error[1]) ELSE @.error,
            created_at |-> now,
            updated_at |-> now]]

\* UPDATE reports SET ... WHERE id = ?: only the truthy members are set;
\* updated_at always is; an id with no row changes nothing.
updateReport(s, id, update, now) ==
  IF id \notin DOMAIN s
    THEN s
    ELSE [s EXCEPT ![id] =
           [status |-> IF truthyString(update.status) THEN update.status[1] ELSE @.status,
            time_range |-> @.time_range,
            top_count |-> @.top_count,
            result |-> IF truthyObject(update.result)
                         THEN Some(JSONstringify(update.result[1])) ELSE @.result,
            error |-> IF truthyString(update.error) THEN Some(update.error[1]) ELSE @.error,
            created_at |-> @.created_at,
            updated_at |-> now]]

\* An UPDATE that matches no row is no error for db.run: updateReport resolves.
updateReportRejects(s, id) == FALSE

\* DELETE FROM reports WHERE created_at < cutoff.
cleanup(s, cutoff) == [i \in {k \in DOMAIN s : ~(s[k].created_at < cutoff)} |-> s[i]]

\* SELECT * FROM reports WHERE id = ?, mapped to a Report; NULL when there is no row.
getReport(s, id) ==
  IF id \notin DOMAIN s
    THEN NULL
    ELSE Some([id |-> id,
               status |-> s[id].status,
               timeRange |-> s[id].time_range,
               topCount |-> s[id].top_count,
               result |-> IF s[id].result # NULL THEN Some(JSONparse(s[id].result[1])) ELSE NULL,
               error |-> s[id].error,
               createdAt |-> s[id].created_at,
               updatedAt |-> s[id].updated_at])

(***************************************************************************)
(* src/server.ts: the answers.                                             *)
(***************************************************************************)
NoResponse == [http |-> 0, success |-> FALSE, error |-> "", reportId |-> 0, status |-> ""]

\* errorHandler: the two credential messages get their own status, the rest
\* err.status || 500.
errorHandler(msg) ==
  IF msg = MsgInvalidKey
    THEN [http |-> HTTP_UNAUTHORIZED, success |-> FALSE, error |-> MsgInvalidKey,
          reportId |-> 0, status |-> ""]
    ELSE IF msg = MsgInvalidProject
      THEN [http |-> HTTP_NOT_FOUND, success |-> FALSE, error |-> MsgInvalidProject,
            reportId |-> 0, status |-> ""]
      ELSE [http |-> HTTP_SERVER_ERROR, success |-> FALSE, error |-> msg,
            reportId |-> 0, status |-> ""]

\* The statuses the credential probe is answered with.
ProbeStatuses == {HTTP_OK, HTTP_UNAUTHORIZED, HTTP_NOT_FOUND, HTTP_SERVER_ERROR}

\* The probe's mapping with the 401 and 404 branches exchanged.
probeErrorSwapped(st) ==
  IF st = HTTP_OK THEN NULL
  ELSE IF st = HTTP_UNAUTHORIZED THEN Some(MsgInvalidProject)
  ELSE IF st = HTTP_NOT_FOUND THEN Some(MsgInvalidKey)
  ELSE Some(MsgValidateFailed)

\* if (!testRequest.ok) throw ...: the message thrown for a status, NULL for 2xx.
probeError(st) ==
  IF st = HTTP_OK THEN NULL
  ELSE IF st = HTTP_UNAUTHORIZED THEN Some(MsgInvalidKey)
  ELSE IF st = HTTP_NOT_FOUND THEN Some(MsgInvalidProject)
  ELSE Some(MsgValidateFailed)

\* getReportHandler's answer as it goes on the wire: res.json drops the keys
\* whose value is undefined.
getReportHandler(s, id) ==
  LET report == getReport(s, id) IN
  IF report = NULL
    THEN [id |-> id, http |-> HTTP_NOT_FOUND, success |-> FALSE, error |-> "Report not found",
          status |-> "", timeRange |-> "", createdAt |-> 0, updatedAt |-> 0,
          dataResult |-> NULL, dataError |-> NULL]
    ELSE [id |-> id, http |-> HTTP_OK, success |-> TRUE, error |-> "",
          status |-> report[1].status, timeRange |-> report[1].timeRange,
          createdAt |-> report[1].createdAt, updatedAt |-> report[1].updatedAt,
          dataResult |-> IF report[1].status = "completed" THEN report[1].result ELSE NULL,
          dataError |-> IF report[1].status = "failed" THEN report[1].error ELSE NULL]


(***************************************************************************)
(* src/index.ts: the time window.  An instant is a number of ticks since   *)
(* the epoch, TicksPerDay ticks to the day, DaysPerMonth days to the month;*)
(* the local zone is UTC.                                                  *)
(***************************************************************************)
midnight(now) == now - (now % TicksPerDay)

startOfMonth(today) ==
  LET day == today \div TicksPerDay IN (day - (day % DaysPerMonth)) * TicksPerDay

\* The resolver with last7 counting today as the first of its seven days.
getTimeRangeConstraintsSixBack(range, now) ==
  LET today == midnight(now) IN
  CASE range = "today" -> [startDate |-> today, endDate |-> now]
    [] range = "yesterday" -> [startDate |-> today - TicksPerDay, endDate |-> today]
    [] range = "last7" -> [startDate |-> today - 6 * TicksPerDay, endDate |-> now]
    [] range = "last30" -> [startDate |-> today - 30 * TicksPerDay, endDate |-> now]
    [] range = "monthToDate" -> [startDate |-> startOfMonth(today), endDate |-> now]
    [] range = "alltime" -> [startDate |-> 0, endDate |-> now]

getTimeRangeConstraints(range, now) ==
  LET today == midnight(now) IN
  CASE range = "today" -> [startDate |-> today, endDate |-> now]
    [] range = "yesterday" -> [startDate |-> today - TicksPerDay, endDate |-> today]
    [] range = "last7" -> [startDate |-> today - 7 * TicksPerDay, endDate |-> now]
    [] range = "last30" -> [startDate |-> today - 30 * TicksPerDay, endDate |-> now]
    [] range = "monthToDate" -> [startDate |-> startOfMonth(today), endDate |-> now]
    [] range = "alltime" -> [startDate |-> 0, endDate |-> now]

isMessageInTimeRange(startTime, range, now) ==
  LET c == getTimeRangeConstraints(range, now) IN
  startTime >= c.startDate /\ startTime <= c.endDate

\* A turn is [type, startTime, query]; startTime and query are optional.
filterDialogsByTimeRange(dialog, range, now) ==
  LET inRange(message) ==
        message.startTime # NULL /\ isMessageInTimeRange(message.startTime[1], range, now)
  IN SelectSeq(dialog, inRange)

\* The queries of the request turns, in turn order (joined by ' ' in the code).
isQuestionTurn(turn) == turn.type = "request" /\ truthyString(turn.query)

RECURSIVE queriesOf(_)
queriesOf(turns) ==
  IF turns = <<>> THEN <<>>
  ELSE IF isQuestionTurn(Head(turns))
    THEN <<Head(turns).query[1]>> \o queriesOf(Tail(turns))
    ELSE queriesOf(Tail(turns))

extractTextFromDialog(dialog) == queriesOf(dialog)

\* The sentence tokenizer: every query of the model is one sentence.
extractQuestions(transcript) == transcript

\* startTime.split('T')[0]: the date part of the timestamp.
dateOf(startTime) == startTime \div TicksPerDay

\* A map whose set(date, questions) forgets the questions the date already has.
RECURSIVE mapAppendReplace(_, _, _)
mapAppendReplace(m, date, questions) ==
  IF m = <<>> THEN <<[date |-> date, questions |-> questions]>>
  ELSE IF Head(m).date = date
    THEN <<[date |-> date, questions |-> questions]>> \o Tail(m)
    ELSE <<Head(m)>> \o mapAppendReplace(Tail(m), date, questions)

\* dailyQuestionsMap.set(date, [...existing, ...questions]): a Map keeps its
\* keys in insertion order.
RECURSIVE mapAppend(_, _, _)
mapAppend(m, date, questions) ==
  IF m = <<>> THEN <<[date |-> date, questions |-> questions]>>
  ELSE IF Head(m).date = date
    THEN <<[date |-> date, questions |-> Head(m).questions \o questions]>> \o Tail(m)
    ELSE <<Head(m)>> \o mapAppend(Tail(m), date, questions)

\* The comparator with its operands swapped: a.date.localeCompare(b.date).
RECURSIVE insertByDateAsc(_, _)
insertByDateAsc(sorted, x) ==
  IF sorted = <<>> THEN <<x>>
  ELSE IF Head(sorted).date <= x.date
    THEN <<Head(sorted)>> \o insertByDateAsc(Tail(sorted), x)
    ELSE <<x>> \o sorted

\* .sort((a, b) => b.date.localeCompare(a.date)): a stable insertion of x.
RECURSIVE insertByDateDesc(_, _)
insertByDateDesc(sorted, x) ==
  IF sorted = <<>> THEN <<x>>
  ELSE IF Head(sorted).date >= x.date
    THEN <<Head(sorted)>> \o insertByDateDesc(Tail(sorted), x)
    ELSE <<x>> \o sorted

RECURSIVE sortByDateDesc(_)
sortByDateDesc(m) ==
  IF m = <<>> THEN <<>>
  ELSE insertByDateDesc(sortByDateDesc(SubSeq(m, 1, Len(m) - 1)), m[Len(m)])

RECURSIVE groupInto(_, _, _, _)
groupInto(m, dialogs, timeRange, now) ==
  IF dialogs = <<>> THEN m
  ELSE
    LET filteredDialog == filterDialogsByTimeRange(Head(dialogs), timeRange, now)
        questions == extractQuestions(extractTextFromDialog(filteredDialog))
    IN IF filteredDialog = <<>> \/ questions = <<>>
         THEN groupInto(m, Tail(dialogs), timeRange, now)
         ELSE groupInto(mapAppend(m, dateOf(filteredDialog[1].startTime[1]), questions),
                        Tail(dialogs), timeRange, now)

groupQuestionsByDate(dialogs, timeRange, now) ==
  sortByDateDesc(groupInto(<<>>, dialogs, timeRange, now))

\* The 'today' branch of analyzeQuestions: one flat list of the in-window queries.
RECURSIVE todayQuestions(_, _, _)
todayQuestions(dialogs, timeRange, now) ==
  IF dialogs = <<>> THEN <<>>
  ELSE queriesOf(filterDialogsByTimeRange(Head(dialogs), timeRange, now))
         \o todayQuestions(Tail(dialogs), timeRange, now)

(***************************************************************************)
(* src/index.ts: clustering results.                                       *)
(***************************************************************************)
zeroUsage == [prompt_tokens |-> 0, completion_tokens |-> 0, total_tokens |-> 0,
              estimated_cost_usd |-> 0]

emptyResult == [questions |-> <<>>, usage |-> zeroUsage]

\* The comparator of both sorts: count descending, then question ascending.
compareClusters(a, b) ==
  IF a.count # b.count THEN b.count - a.count ELSE localeCompare(a.question, b.question)

RECURSIVE insertCluster(_, _)
insertCluster(sorted, x) ==
  IF sorted = <<>> THEN <<x>>
  ELSE IF compareClusters(Head(sorted), x) <= 0
    THEN <<Head(sorted)>> \o insertCluster(Tail(sorted), x)
    ELSE <<x>> \o sorted

\* Array.prototype.sort with that comparator (stable).
RECURSIVE sortClusters(_)
sortClusters(cs) ==
  IF cs = <<>> THEN <<>>
  ELSE insertCluster(sortClusters(SubSeq(cs, 1, Len(cs) - 1)), cs[Len(cs)])

\* Array.prototype.slice(0, end): a negative end counts from the back.
slice0(s, end) ==
  LET k == IF end < 0 THEN Max(Len(s) + end, 0) ELSE Min(end, Len(s))
  IN SubSeq(s, 1, k)

\* A Number that is no integer is a binary floating-point value: it keeps a
\* fixed count of significant bits (MantissaBits here) and every arithmetic
\* result is rounded to the nearest such value, ties to the even one.  The
\* unit is one thousandth of a cent.  Token counts are integers well inside
\* the exact range and are added exactly.
RECURSIVE quantum(_)
quantum(x) == IF x < 2 ^ MantissaBits THEN 1 ELSE 2 * quantum(x \div 2)

roundToNumber(x) ==
  LET q == quantum(x)
      lo == (x \div q) * q
  IN IF 2 * (x - lo) < q THEN lo
     ELSE IF 2 * (x - lo) > q THEN lo + q
     ELSE IF (lo \div q) % 2 = 0 THEN lo ELSE lo + q

numberAdd(x, y) == roundToNumber(x + y)

\* (prompt_tokens / 1000) * prompt_per_1k + (completion_tokens / 1000) * completion_per_1k
estimatedCost(usage) ==
  numberAdd(roundToNumber(usage.prompt_tokens * prompt_per_1k),
            roundToNumber(usage.completion_tokens * completion_per_1k))

\* processDailyBatch after the completion call has answered.  The reply is
\* [kind, clusters, usage]; the outcome is a result or the message thrown.
processReply(reply, top) ==
  CASE reply.kind = "nocontent" -> [ok |-> TRUE, result |-> emptyResult, msg |-> ""]
    [] reply.kind = "badjson" -> [ok |-> FALSE, result |-> emptyResult, msg |-> MsgSyntax]
    [] reply.kind = "nofield" -> [ok |-> FALSE, result |-> emptyResult, msg |-> MsgType]
    [] OTHER ->
         LET usage == IF reply.usage = NULL
                        THEN [prompt_tokens |-> 0, completion_tokens |-> 0, total_tokens |-> 0]
                        ELSE reply.usage[1]
         IN [ok |-> TRUE,
             result |-> [questions |-> slice0(sortClusters(reply.clusters), top),
                         usage |-> [prompt_tokens |-> usage.prompt_tokens,
                                    completion_tokens |-> usage.completion_tokens,
                                    total_tokens |-> usage.total_tokens,
                                    estimated_cost_usd |-> estimatedCost(usage)]],
             msg |-> ""]

\* frequencyMap.set(normalized, q.count): the count already there is lost.
RECURSIVE freqAddOverwrite(_, _, _)
freqAddOverwrite(m, question, count) ==
  IF m = <<>> THEN <<[question |-> question, count |-> count]>>
  ELSE IF Head(m).question = question
    THEN <<[question |-> question, count |-> count]>> \o Tail(m)
    ELSE <<Head(m)>> \o freqAddOverwrite(Tail(m), question, count)

\* frequencyMap.set(normalized, (frequencyMap.get(normalized) || 0) + q.count)
RECURSIVE freqAdd(_, _, _)
freqAdd(m, question, count) ==
  IF m = <<>> THEN <<[question |-> question, count |-> count]>>
  ELSE IF Head(m).question = question
    THEN <<[question |-> question, count |-> Head(m).count + count]>> \o Tail(m)
    ELSE <<Head(m)>> \o freqAdd(Tail(m), question, count)

RECURSIVE freqAddAll(_, _)
freqAddAll(m, qs) ==
  IF qs = <<>> THEN m
  ELSE freqAddAll(freqAdd(m, normalize(Head(qs).question), Head(qs).count), Tail(qs))

RECURSIVE frequencyMap(_, _)
frequencyMap(m, dailyResults) ==
  IF dailyResults = <<>> THEN m
  ELSE frequencyMap(freqAddAll(m, Head(dailyResults).questions), Tail(dailyResults))

RECURSIVE sumUsage(_, _)
sumUsage(acc, dailyResults) ==
  IF dailyResults = <<>> THEN acc
  ELSE sumUsage([prompt_tokens |-> acc.prompt_tokens + Head(dailyResults).usage.prompt_tokens,
                 completion_tokens |->
                   acc.completion_tokens + Head(dailyResults).usage.completion_tokens,
                 total_tokens |-> acc.total_tokens + Head(dailyResults).usage.total_tokens,
                 estimated_cost_usd |->
                   numberAdd(acc.estimated_cost_usd,
                             Head(dailyResults).usage.estimated_cost_usd)],
                Tail(dailyResults))

combineResults(dailyResults, top) ==
  [questions |-> slice0(sortClusters(frequencyMap(<<>>, dailyResults)), top),
   usage |-> sumUsage(zeroUsage, dailyResults)]


(***************************************************************************)
(* What the external collaborators answer.                                 *)
(***************************************************************************)
turn(type, startTime, query) == [type |-> type, startTime |-> startTime, query |-> query]

\* One question asked today.
dialogToday == <<turn("request", Some(NowStart), Some("q1"))>>

\* A question late yesterday and one today, after a turn that carries no time.
dialogTwoDays ==
  <<turn("request", NULL, Some("q0")),
    turn("request", Some(NowStart - 1), Some("q1")),
    turn("request", Some(NowStart), Some("q2"))>>

\* No question: a turn of another type and a request with an empty query.
dialogNoQuery ==
  <<turn("text", Some(NowStart), NULL), turn("request", Some(NowStart), Some(""))>>

DialogPool == {dialogToday, dialogTwoDays, dialogNoQuery}

\* A question yesterday, after a turn of another type earlier that day.
dialogYesterday ==
  <<turn("text", Some(NowStart - TicksPerDay), NULL),
    turn("request", Some(NowStart - 1), Some("q3"))>>

\* A question eight days ago and one the day before yesterday.
dialogOld ==
  <<turn("request", Some(NowStart - 8 * TicksPerDay), Some("q4")),
    turn("request", Some(NowStart - TicksPerDay - 1), Some("q5"))>>

cluster(q, n) == [question |-> q, count |-> n]

ClusterPool ==
  { <<>>,
    <<cluster("a", 1)>>,
    <<cluster("b", 1), cluster("A ", 2), cluster("a", 2)>> }

UsagePool == {NULL, Some([prompt_tokens |-> 1, completion_tokens |-> 1, total_tokens |-> 2])}

ClusterReplies ==
  [kind : {"nocontent", "badjson", "nofield"}, clusters : {<<>>}, usage : {NULL}]
    \cup [kind : {"json"}, clusters : ClusterPool, usage : UsagePool]

(***************************************************************************)
(* Initial state: the process has started, the table is empty.             *)
(***************************************************************************)
NoLocal == [range |-> "", top |-> 0, now |-> 0, probe |-> 0]

NoPipe == [n |-> 0, i |-> 0, allDialogs |-> <<>>, today |-> FALSE, batches |-> <<>>,
           dailyResults |-> <<>>]

NoObs == [fetched |-> <<>>, replies |-> <<>>]

ServerInit ==
  /\ env = envInit
  /\ store = [i \in {} |-> NULL]
  /\ clock = NowStart
  /\ hpc = [j \in Jobs |-> "idle"]
  /\ local = [j \in Jobs |-> NoLocal]
  /\ response = [j \in Jobs |-> NoResponse]
  /\ ppc = [j \in Jobs |-> "idle"]
  /\ pipe = [j \in Jobs |-> NoPipe]
  /\ outcome = [j \in Jobs |-> NULL]
  /\ updq = [j \in Jobs |-> <<>>]
  /\ calls = [j \in Jobs |-> 0]

Init == ServerInit /\ input = NULL /\ output = NULL /\ obs = NoObs

\* new Date() never goes back.
Tick ==
  /\ clock < NowStart + MaxClock
  /\ clock' = clock + 1
  /\ UNCHANGED <<env, store, hpc, local, response, ppc, pipe, outcome, updq, calls>>

(***************************************************************************)
(* analyzeHandler.  Request j draws the report id j (crypto.randomUUID()   *)
(* does not repeat); requests are numbered in their order of arrival.      *)
(***************************************************************************)
\* querySchema.parse: the range must be one of the enum's labels; top is any string.
querySchemaOk(range, top) == range \in Labels

\* Up to the first await: parse, setEnvironmentVariables, and createReport's
\* synchronous part (it reads the clock).  A parse error goes to errorHandler.
Submit(j, range, top) ==
  /\ hpc[j] = "idle"
  /\ j > 1 => hpc[j - 1] # "idle"
  /\ IF querySchemaOk(range, top)
       THEN /\ env' = setEnvironmentVariables(env, [TIME_RANGE |-> range, TOP_QUESTIONS |-> top])
            /\ local' = [local EXCEPT ![j] =
                 [range |-> range, top |-> top, now |-> clock, probe |-> 0]]
            /\ hpc' = [hpc EXCEPT ![j] = "creating"]
            /\ UNCHANGED response
       ELSE /\ response' = [response EXCEPT ![j] = errorHandler(MsgZod)]
            /\ local' = [local EXCEPT ![j] =
                 [range |-> range, top |-> top, now |-> 0, probe |-> 0]]
            /\ hpc' = [hpc EXCEPT ![j] = "done"]
            /\ UNCHANGED env
  /\ UNCHANGED <<store, clock, ppc, pipe, outcome, updq, calls>>

\* createReport's INSERT is written; the handler goes on to send the probe.
Inserted(j) ==
  /\ hpc[j] = "creating"
  /\ store' = createReport(store, j, local[j].range, local[j].top, local[j].now)
  /\ hpc' = [hpc EXCEPT ![j] = "probing"]
  /\ UNCHANGED <<env, clock, local, response, ppc, pipe, outcome, updq, calls>>

\* res.json({success: true, data: {reportId, status: report.status, ...}}):
\* report is the object createReport returned.
accepted(j) ==
  [http |-> HTTP_OK, success |-> TRUE, error |-> "", reportId |-> j, status |-> "pending"]

\* The probe is answered.  Not ok: throw, and errorHandler answers.  Ok:
\* analyzeQuestions() is called (it runs up to its first await, the fetch of
\* validateVoiceflowCredentials) and the handler answers at once.
ProbeReturn(j, st) ==
  /\ hpc[j] = "probing"
  /\ hpc' = [hpc EXCEPT ![j] = "done"]
  /\ local' = [local EXCEPT ![j].probe = st]
  /\ IF probeError(st) # NULL
       THEN /\ response' = [response EXCEPT ![j] = errorHandler(probeError(st)[1])]
            /\ UNCHANGED ppc
       ELSE /\ response' = [response EXCEPT ![j] = accepted(j)]
            /\ ppc' = [ppc EXCEPT ![j] = "validate"]
  /\ UNCHANGED <<env, store, clock, pipe, outcome, updq, calls>>

\* The probe's fetch rejects (no answer at all): caught, errorHandler answers.
ProbeRejects(j, msg) ==
  /\ hpc[j] = "probing"
  /\ hpc' = [hpc EXCEPT ![j] = "done"]
  /\ response' = [response EXCEPT ![j] = errorHandler(msg)]
  /\ UNCHANGED <<env, store, clock, local, ppc, pipe, outcome, updq, calls>>

(***************************************************************************)
(* The promise chain analyzeQuestions().then(...).catch(...).              *)
(***************************************************************************)
fulfilled(result) == [ok |-> TRUE, result |-> result, msg |-> ""]
rejected(msg) == [ok |-> FALSE, result |-> emptyResult, msg |-> msg]

\* The chain with a .then callback that throws after its updateReport call:
\* the .catch callback runs as well.
reactionsThenAndCatch(o) ==
  IF o.ok
    THEN <<[status |-> Some("completed"), result |-> Some(o.result), error |-> NULL],
           [status |-> Some("failed"), result |-> NULL, error |-> Some("thrown in then")]>>
    ELSE <<[status |-> Some("failed"), result |-> NULL, error |-> Some(o.msg)]>>

\* The chain without its .catch: a rejection is written nowhere.
reactionsThenOnly(o) ==
  IF o.ok
    THEN <<[status |-> Some("completed"), result |-> Some(o.result), error |-> NULL]>>
    ELSE <<>>

\* The updateReport calls the chain makes for a settled promise, in order.
reactions(o) ==
  IF o.ok
    THEN <<[status |-> Some("completed"), result |-> Some(o.result), error |-> NULL]>>
    ELSE <<[status |-> Some("failed"), result |-> NULL, error |-> Some(o.msg)]>>

RECURSIVE stamp(_, _)
stamp(updates, now) ==
  IF updates = <<>> THEN <<>>
  ELSE <<[update |-> Head(updates), now |-> now]>> \o stamp(Tail(updates), now)

\* The promise settles and its reactions run in the same turn of the event
\* loop: each updateReport call reads the clock and awaits the database.
Settle(j, o) ==
  /\ ppc' = [ppc EXCEPT ![j] = "settled"]
  /\ pipe' = [pipe EXCEPT ![j] = NoPipe]
  /\ outcome' = [outcome EXCEPT ![j] = Some(o)]
  /\ updq' = [updq EXCEPT ![j] = @ \o stamp(reactions(o), clock)]
  /\ calls' = [calls EXCEPT ![j] = @ + Len(reactions(o))]

\* A chain that names its report by a variable every submission assigns: the
\* UPDATE goes to the report created last.
UpdateLandsLatest(j) ==
  /\ updq[j] # <<>>
  /\ LET latest == CHOOSE i \in DOMAIN store : \A k \in DOMAIN store : k <= i IN
     store' = updateReport(store, latest, Head(updq[j]).update, Head(updq[j]).now)
  /\ updq' = [updq EXCEPT ![j] = Tail(@)]
  /\ UNCHANGED <<env, clock, hpc, local, response, ppc, pipe, outcome, calls>>

\* An UPDATE is written.
UpdateLands(j) ==
  /\ updq[j] # <<>>
  /\ store' = updateReport(store, j, Head(updq[j]).update, Head(updq[j]).now)
  /\ updq' = [updq EXCEPT ![j] = Tail(@)]
  /\ UNCHANGED <<env, clock, hpc, local, response, ppc, pipe, outcome, calls>>


(***************************************************************************)
(* analyzeQuestions() in server mode, one action per await.                *)
(***************************************************************************)
\* validateVoiceflowCredentials: the message thrown for a status, NULL for 2xx.
validateVoiceflowCredentials(st) ==
  IF st = HTTP_OK THEN NULL
  ELSE IF st = HTTP_UNAUTHORIZED THEN Some(MsgInvalidKey)
  ELSE IF st = HTTP_NOT_FOUND THEN Some(MsgInvalidProject)
  ELSE Some(MsgValidateFailed)

\* fetchTranscriptSummaries, first await: the credential check is answered;
\* when it passes, the listing for RANGE_MAPPING[env.TIME_RANGE] is requested.
ValidateReturn(j, st) ==
  /\ ppc[j] = "validate"
  /\ IF validateVoiceflowCredentials(st) # NULL
       THEN Settle(j, rejected(validateVoiceflowCredentials(st)[1]))
       ELSE /\ ppc' = [ppc EXCEPT ![j] = "list"]
            /\ UNCHANGED <<pipe, outcome, updq, calls>>
  /\ UNCHANGED <<env, store, clock, hpc, local, response>>

\* One of the two fetches of fetchTranscriptSummaries rejects.
FetchRejects(j, msg) ==
  /\ ppc[j] \in {"validate", "list"}
  /\ Settle(j, rejected(msg))
  /\ UNCHANGED <<env, store, clock, hpc, local, response>>

\* processDailyBatch without its guard for an empty list: the 'today' branch
\* makes the completion call for no question at all.
StartBatchesCallsEmpty(j, allDialogs) ==
  IF env.TIME_RANGE = "today"
    THEN /\ ppc' = [ppc EXCEPT ![j] = "cluster"]
         /\ pipe' = [pipe EXCEPT ![j] =
              [NoPipe EXCEPT !.today = TRUE,
                             !.batches = <<[date |-> 0,
                                            questions |-> todayQuestions(allDialogs, env.TIME_RANGE, clock)]>>]]
         /\ UNCHANGED <<outcome, updq, calls>>
    ELSE LET dailyQuestions == groupQuestionsByDate(allDialogs, env.TIME_RANGE, clock) IN
         IF dailyQuestions = <<>>
           THEN Settle(j, fulfilled(combineResults(<<>>, env.TOP_QUESTIONS)))
           ELSE /\ ppc' = [ppc EXCEPT ![j] = "cluster"]
                /\ pipe' = [pipe EXCEPT ![j] = [NoPipe EXCEPT !.batches = dailyQuestions]]
                /\ UNCHANGED <<outcome, updq, calls>>

\* After the dialog loop, with no await in between: the 'today' branch sends
\* all in-window queries as one batch (an empty one makes no call and returns
\* the empty result); the other ranges group by date and start the batch loop
\* (no batch at all goes straight to combineResults).
StartBatches(j, allDialogs) ==
  IF env.TIME_RANGE = "today"
    THEN LET allQuestions == todayQuestions(allDialogs, env.TIME_RANGE, clock) IN
         IF allQuestions = <<>>
           THEN Settle(j, fulfilled(emptyResult))
           ELSE /\ ppc' = [ppc EXCEPT ![j] = "cluster"]
                /\ pipe' = [pipe EXCEPT ![j] =
                     [NoPipe EXCEPT !.today = TRUE,
                                    !.batches = <<[date |-> 0, questions |-> allQuestions]>>]]
                /\ UNCHANGED <<outcome, updq, calls>>
    ELSE LET dailyQuestions == groupQuestionsByDate(allDialogs, env.TIME_RANGE, clock) IN
         IF dailyQuestions = <<>>
           THEN Settle(j, fulfilled(combineResults(<<>>, env.TOP_QUESTIONS)))
           ELSE /\ ppc' = [ppc EXCEPT ![j] = "cluster"]
                /\ pipe' = [pipe EXCEPT ![j] = [NoPipe EXCEPT !.batches = dailyQuestions]]
                /\ UNCHANGED <<outcome, updq, calls>>

\* The listing is answered: not ok throws; ok gives n summaries and the first
\* dialog is requested.
ListReturn(j, ok, n) ==
  /\ ppc[j] = "list"
  /\ IF ~ok
       THEN Settle(j, rejected(MsgListFailed))
       ELSE IF n = 0
         THEN StartBatches(j, <<>>)
         ELSE /\ ppc' = [ppc EXCEPT ![j] = "dialogs"]
              /\ pipe' = [pipe EXCEPT ![j] = [NoPipe EXCEPT !.n = n, !.i = 1]]
              /\ UNCHANGED <<outcome, updq, calls>>
  /\ UNCHANGED <<env, store, clock, hpc, local, response>>

\* A loop that does not wait for the remaining fetches: the batches start
\* as soon as one fetch has been answered.
NextDialogNoWait(j, allDialogs) == StartBatches(j, allDialogs)

\* The loop goes on with allDialogs: the next fetch, or the batches.
NextDialog(j, allDialogs) ==
  IF pipe[j].i < pipe[j].n
    THEN /\ pipe' = [pipe EXCEPT ![j].i = @ + 1, ![j].allDialogs = allDialogs]
         /\ UNCHANGED <<ppc, outcome, updq, calls>>
    ELSE StartBatches(j, allDialogs)

\* fetchTranscriptDialog answers with a dialog: it is pushed, and delay(100)
\* passes (nothing is read between the push and the end of the delay).
DialogReturn(j, dialog) ==
  /\ ppc[j] = "dialogs"
  /\ NextDialog(j, Append(pipe[j].allDialogs, dialog))
  /\ UNCHANGED <<env, store, clock, hpc, local, response>>

\* The dialog loop without its try/catch: a failed fetch rejects the pipeline.
DialogFailsAborts(j) ==
  /\ ppc[j] = "dialogs"
  /\ Settle(j, rejected("fetch failed"))
  /\ UNCHANGED <<env, store, clock, hpc, local, response>>

\* fetchTranscriptDialog throws (not ok, or the fetch rejects): caught, the
\* transcript is skipped.
DialogFails(j) ==
  /\ ppc[j] = "dialogs"
  /\ NextDialog(j, pipe[j].allDialogs)
  /\ UNCHANGED <<env, store, clock, hpc, local, response>>

\* The completion call of processDailyBatch is answered.  In the 'today'
\* branch the batch's result is the job's; otherwise a result with questions is
\* pushed to dailyResults and delay(500) starts.
ClusterReturn(j, reply) ==
  /\ ppc[j] = "cluster"
  /\ LET r == processReply(reply, env.TOP_QUESTIONS) IN
     IF ~r.ok
       THEN Settle(j, rejected(r.msg))
       ELSE IF pipe[j].today
         THEN Settle(j, fulfilled(r.result))
         ELSE /\ ppc' = [ppc EXCEPT ![j] = "delay"]
              /\ pipe' = [pipe EXCEPT ![j].batches = Tail(@),
                                      ![j].dailyResults =
                                        IF r.result.questions # <<>>
                                          THEN Append(@, r.result) ELSE @]
              /\ UNCHANGED <<outcome, updq, calls>>
  /\ UNCHANGED <<env, store, clock, hpc, local, response>>

\* The completion call rejects.
ClusterRejects(j, msg) ==
  /\ ppc[j] = "cluster"
  /\ Settle(j, rejected(msg))
  /\ UNCHANGED <<env, store, clock, hpc, local, response>>

\* delay(500) is over: the next batch's call, or combineResults.
DelayDone(j) ==
  /\ ppc[j] = "delay"
  /\ IF pipe[j].batches # <<>>
       THEN /\ ppc' = [ppc EXCEPT ![j] = "cluster"]
            /\ UNCHANGED <<pipe, outcome, updq, calls>>
       ELSE Settle(j, fulfilled(combineResults(pipe[j].dailyResults, env.TOP_QUESTIONS)))
  /\ UNCHANGED <<env, store, clock, hpc, local, response>>

Next ==
  \/ Tick /\ UNCHANGED aux
  \/ \E j \in Jobs, range \in RangeInputs, top \in TopInputs : Submit(j, range, top) /\ UNCHANGED aux
  \/ \E j \in Jobs : Inserted(j) /\ UNCHANGED aux
  \/ \E j \in Jobs, st \in ProbeStatuses : ProbeReturn(j, st) /\ UNCHANGED aux
  \/ \E j \in Jobs, msg \in ExternalMsgs : ProbeRejects(j, msg) /\ UNCHANGED aux
  \/ \E j \in Jobs, st \in ProbeStatuses : ValidateReturn(j, st) /\ UNCHANGED aux
  \/ \E j \in Jobs, msg \in ExternalMsgs : FetchRejects(j, msg) /\ UNCHANGED aux
  \/ \E j \in Jobs, ok \in BOOLEAN, n \in 0..MaxSummaries : ListReturn(j, ok, n) /\ UNCHANGED aux
  \/ \E j \in Jobs, dialog \in DialogPool : DialogReturn(j, dialog) /\ UNCHANGED aux
  \/ \E j \in Jobs : DialogFails(j) /\ UNCHANGED aux
  \/ \E j \in Jobs, reply \in ClusterReplies : ClusterReturn(j, reply) /\ UNCHANGED aux
  \/ \E j \in Jobs, msg \in ExternalMsgs : ClusterRejects(j, msg) /\ UNCHANGED aux
  \/ \E j \in Jobs : DelayDone(j) /\ UNCHANGED aux
  \/ \E j \in Jobs : UpdateLands(j) /\ UNCHANGED aux

Spec == Init /\ [][Next]_vars

(***************************************************************************)
(* One submission, observed: the same handler and pipeline with a single   *)
(* request, and a record of what fetchTranscriptDialog and the completion  *)
(* call answered it, in order.                                             *)
(***************************************************************************)
theJob == CHOOSE j \in Jobs : \A k \in Jobs : j <= k

PipeNext ==
  \/ Tick /\ UNCHANGED aux
  \/ \E range \in RangeInputs, top \in TopInputs : Submit(theJob, range, top) /\ UNCHANGED aux
  \/ Inserted(theJob) /\ UNCHANGED aux
  \/ \E st \in ProbeStatuses : ProbeReturn(theJob, st) /\ UNCHANGED aux
  \/ \E msg \in ExternalMsgs : ProbeRejects(theJob, msg) /\ UNCHANGED aux
  \/ \E st \in ProbeStatuses : ValidateReturn(theJob, st) /\ UNCHANGED aux
  \/ \E msg \in ExternalMsgs : FetchRejects(theJob, msg) /\ UNCHANGED aux
  \/ \E ok \in BOOLEAN, n \in 0..MaxSummaries : ListReturn(theJob, ok, n) /\ UNCHANGED aux
  \/ \E dialog \in DialogPool :
       /\ DialogReturn(theJob, dialog)
       /\ obs' = [obs EXCEPT !.fetched = Append(@, Some(dialog))]
       /\ UNCHANGED <<input, output>>
  \/ /\ DialogFails(theJob)
     /\ obs' = [obs EXCEPT !.fetched = Append(@, NULL)]
     /\ UNCHANGED <<input, output>>
  \/ \E reply \in ClusterReplies :
       /\ ClusterReturn(theJob, reply)
       /\ obs' = [obs EXCEPT !.replies = Append(@, reply)]
       /\ UNCHANGED <<input, output>>
  \/ \E msg \in ExternalMsgs : ClusterRejects(theJob, msg) /\ UNCHANGED aux
  \/ DelayDone(theJob) /\ UNCHANGED aux
  \/ UpdateLands(theJob) /\ UNCHANGED aux

PipeSpec == Init /\ [][PipeNext]_vars

\* The same with every external call returning and every UPDATE written: no
\* step of the submission that can be taken is put off for ever.
PipeFairSpec == Init /\ [][PipeNext]_vars /\ WF_vars(PipeNext)

(***************************************************************************)
(* combineResults applied to a list of per-batch results.                  *)
(***************************************************************************)
\* The usage of a ClusteringResult as processDailyBatch builds it.
usageOf(prompt, completion) ==
  [prompt_tokens |-> prompt, completion_tokens |-> completion,
   total_tokens |-> prompt + completion,
   estimated_cost_usd |->
     estimatedCost([prompt_tokens |-> prompt, completion_tokens |-> completion])]

ResultPool ==
  { emptyResult,
    [questions |-> <<cluster("a", 3)>>, usage |-> usageOf(0, 1)],
    [questions |-> <<cluster("A ", 2)>>, usage |-> usageOf(1, 1)],
    [questions |-> <<cluster("b", 2), cluster("a", 1)>>, usage |-> usageOf(2, 1)] }

\* env.TOP_QUESTIONS at the call: what a submission can leave there.
CombineTops == TopInputs \cup {DefaultTop}

CombineInputs ==
  [dailyResults : UNION {[1..n -> ResultPool] : n \in 0..MaxBatches}, top : CombineTops]

CombineInit == ServerInit /\ input \in CombineInputs /\ output = NULL /\ obs = NoObs

Combine ==
  /\ output = NULL
  /\ output' = Some(combineResults(input.dailyResults, input.top))
  /\ UNCHANGED <<server, input, obs>>

CombineNext == Combine

CombineSpec == CombineInit /\ [][CombineNext]_vars

(***************************************************************************)
(* DatabaseService under any caller.  A call reads the clock and hands its *)
(* statement to the database (input: the statements handed over and not    *)
(* yet run, oldest first); the statement runs later and the call's promise *)
(* settles (output: the last call settled).                                *)
(***************************************************************************)
UpdatePool ==
  { [status |-> Some("completed"), result |-> Some(emptyResult), error |-> NULL],
    [status |-> Some("failed"), result |-> NULL, error |-> Some("fetch failed")] }

\* cleanup's maxAge: none, so that every row older than the call goes (with
\* the default of one day nothing is old enough within the clock's span).
MaxAges == {0}

\* The ids the callers use: two reports.
StoreIds == {1, 2}

statement(op, id, update, now) == [op |-> op, id |-> id, update |-> update, now |-> now]

StoreInit == ServerInit /\ input = <<>> /\ output = NULL /\ obs = NoObs

\* createReport up to its await of db.run.
CreateCall(id) ==
  /\ Len(input) < MaxPending
  /\ input' = Append(input, statement("createReport", id, NULL, clock))
  /\ UNCHANGED <<server, output, obs>>

\* updateReport up to its await of db.run.
UpdateCall(id, update) ==
  /\ Len(input) < MaxPending
  /\ input' = Append(input, statement("updateReport", id, Some(update), clock))
  /\ UNCHANGED <<server, output, obs>>

\* cleanup up to its await of db.run: the statement carries the cutoff.
CleanupCall(maxAge) ==
  /\ Len(input) < MaxPending
  /\ input' = Append(input, statement("cleanup", 0, NULL, clock - maxAge))
  /\ UNCHANGED <<server, output, obs>>

\* The oldest statement runs and its call settles.
StatementRuns ==
  /\ input # <<>>
  /\ LET st == Head(input) IN
     /\ store' = CASE st.op = "createReport" ->
                       createReport(store, st.id, envInit.TIME_RANGE, DefaultTop, st.now)
                  [] st.op = "updateReport" -> updateReport(store, st.id, st.update[1], st.now)
                  [] OTHER -> cleanup(store, st.now)
     /\ output' = Some([op |-> st.op, id |-> st.id, found |-> st.id \in DOMAIN store,
                         rejected |-> CASE st.op = "createReport" ->
                                             createReportRejects(store, st.id)
                                        [] st.op = "updateReport" ->
                                             updateReportRejects(store, st.id)
                                        [] OTHER -> FALSE])
  /\ input' = Tail(input)
  /\ UNCHANGED <<env, clock, hpc, local, response, ppc, pipe, outcome, updq, calls, obs>>

StoreNext ==
  \/ Tick /\ UNCHANGED aux
  \/ \E id \in StoreIds : CreateCall(id)
  \/ \E id \in StoreIds, update \in UpdatePool : UpdateCall(id, update)
  \/ \E maxAge \in MaxAges : CleanupCall(maxAge)
  \/ StatementRuns

StoreSpec == StoreInit /\ [][StoreNext]_vars

(***************************************************************************)
(* getTimeRangeConstraints applied to a label at an instant.               *)
(***************************************************************************)
\* new Date(): the instants from the epoch to a month after the server's start.
NowValues == 0..(StartDay + DaysPerMonth) * TicksPerDay

RangeInit ==
  /\ ServerInit
  /\ input \in [range : Labels, now : NowValues]
  /\ output = NULL
  /\ obs = NoObs

Resolve ==
  /\ output = NULL
  /\ output' = Some(getTimeRangeConstraints(input.range, input.now))
  /\ UNCHANGED <<server, input, obs>>

RangeNext == Resolve

RangeSpec == RangeInit /\ [][RangeNext]_vars


(***************************************************************************)
(* groupQuestionsByDate applied to a list of dialogs, for a label other    *)
(* than today, at an instant.                                              *)
(***************************************************************************)
GroupDialogs == DialogPool \cup {dialogYesterday, dialogOld}

GroupInputs ==
  [dialogs : UNION {[1..n -> GroupDialogs] : n \in 0..MaxSummaries},
   range : Labels \ {"today"},
   now : NowStart..(NowStart + MaxClock)]

GroupInit == ServerInit /\ input \in GroupInputs /\ output = NULL /\ obs = NoObs

Group ==
  /\ output = NULL
  /\ output' = Some(groupQuestionsByDate(input.dialogs, input.range, input.now))
  /\ UNCHANGED <<server, input, obs>>

GroupNext == Group

GroupSpec == GroupInit /\ [][GroupNext]_vars


(***************************************************************************)
(* The credentials of a submission: those the handler's probe sends and    *)
(* those the pipeline's requests send.                                     *)
(***************************************************************************)
ProjectIds == {"p0", "p1"}
ApiKeys == {"k0", "k1"}

\* process.env after dotenv: PROJECT_ID and VF_API_KEY are strings (envSchema
\* rejects their absence when the module loads); the key may be empty.
ProcessEnvs == [PROJECT_ID : {"p0"}, VF_API_KEY : {"", "k0"}]

\* bodySchema: both fields are optional strings.
Bodies ==
  [PROJECT_ID : {NULL, Some("")} \cup {Some(p) : p \in ProjectIds},
   VF_API_KEY : {NULL, Some("")} \cup {Some(k) : k \in ApiKeys}]

\* ...(body.VF_API_KEY && { VF_API_KEY: body.VF_API_KEY }) and the same for
\* PROJECT_ID: the overrides handed to setEnvironmentVariables.
credentialOverrides(body) ==
  [PROJECT_ID |-> IF truthyString(body.PROJECT_ID) THEN body.PROJECT_ID ELSE NULL,
   VF_API_KEY |-> IF truthyString(body.VF_API_KEY) THEN body.VF_API_KEY ELSE NULL]

\* getConfig: the overrides are merged into envVars, and the parsed object
\* takes PROJECT_ID and VF_API_KEY from process.env.
getConfigCredentials(processEnv, overrides) ==
  [PROJECT_ID |-> processEnv.PROJECT_ID, VF_API_KEY |-> processEnv.VF_API_KEY]

\* The handler's probe: body.PROJECT_ID || process.env.PROJECT_ID and
\* body.VF_API_KEY || process.env.VF_API_KEY || ''.
probeCredentials(processEnv, body) ==
  [PROJECT_ID |-> IF truthyString(body.PROJECT_ID)
                    THEN body.PROJECT_ID[1] ELSE processEnv.PROJECT_ID,
   VF_API_KEY |-> IF truthyString(body.VF_API_KEY)
                    THEN body.VF_API_KEY[1] ELSE processEnv.VF_API_KEY]

\* The requests of the pipeline that carry env.PROJECT_ID and env.VF_API_KEY.
PipelineRequests == <<"validate", "list", "dialog">>

ConfigInit ==
  /\ ServerInit
  /\ input \in [processEnv : ProcessEnvs, body : Bodies, range : Labels]
  /\ output = NULL
  /\ obs = NoObs

\* setEnvironmentVariables, then the probe is sent.
ProbeSent ==
  /\ output = NULL
  /\ output' = Some([env |-> getConfigCredentials(input.processEnv,
                                                  credentialOverrides(input.body)),
                     probe |-> probeCredentials(input.processEnv, input.body),
                     requests |-> <<>>])
  /\ UNCHANGED <<server, input, obs>>

\* The pipeline sends its next request with the credentials of env.
RequestSent ==
  /\ output # NULL
  /\ Len(output[1].requests) < Len(PipelineRequests)
  /\ output' = Some([output[1] EXCEPT !.requests =
                       Append(@, [to |-> PipelineRequests[Len(@) + 1],
                                  PROJECT_ID |-> output[1].env.PROJECT_ID,
                                  VF_API_KEY |-> output[1].env.VF_API_KEY])])
  /\ UNCHANGED <<server, input, obs>>

ConfigNext == ProbeSent \/ RequestSent

ConfigSpec == ConfigInit /\ [][ConfigNext]_vars


(***************************************************************************)
(* isMessageInTimeRange applied to the turns of one job, one after the     *)
(* other: each call resolves the window anew, getTimeRangeConstraints      *)
(* reading new Date(), and time passes between two calls.                  *)
(***************************************************************************)
\* A timestamp of the last day or of today, not after the first instant at
\* which the job examines a turn.
ExamInputs ==
  {x \in [range : Labels,
          startTime : (NowStart - TicksPerDay)..(NowStart + TicksPerDay - 1),
          now : NowStart..(NowStart + TicksPerDay - 1)] : x.startTime <= x.now}

ExamInit ==
  /\ ServerInit
  /\ input \in ExamInputs
  /\ output = [now |-> input.now, verdicts |-> <<>>]
  /\ obs = NoObs

\* One more turn with the timestamp input.startTime is examined.
Examine ==
  /\ Len(output.verdicts) < MaxTurns
  /\ output' = [output EXCEPT !.verdicts =
                  Append(@, isMessageInTimeRange(input.startTime, input.range, output.now))]
  /\ UNCHANGED <<server, input, obs>>

\* new Date() has moved on.
TimePasses ==
  /\ output.now < input.now + MaxClock
  /\ output' = [output EXCEPT !.now = @ + 1]
  /\ UNCHANGED <<server, input, obs>>

ExamNext == Examine \/ TimePasses

ExamSpec == ExamInit /\ [][ExamNext]_vars


(***************************************************************************)
(* Properties.                                                             *)
(***************************************************************************)
ReportIds == 0..MaxJobs

probeFailed(j) == local[j].probe # 0 /\ local[j].probe # HTTP_OK

C2_StatusTransitions ==
  [][ /\ \A id \in DOMAIN store' : store'[id].status \in Statuses
      /\ \A id \in DOMAIN store :
           /\ id \in DOMAIN store'
           /\ store'[id].status # store[id].status =>
                /\ store[id].status = "pending"
                /\ store'[id].status \in {"completed", "failed"} ]_vars

\* C2 witness: one report has gone to completed and another to failed.
C2_Witness ==
  \E i, k \in DOMAIN store : store[i].status = "completed" /\ store[k].status = "failed"

\* C3: a pipeline that has not settled has made no updateReport call, one that
\* has settled has made exactly one; until the call a reader sees pending.
C3_ExactlyOneUpdate ==
  \A j \in Jobs :
    /\ ppc[j] = "settled" => calls[j] = 1
    /\ ppc[j] # "settled" => calls[j] = 0
    /\ (j \in DOMAIN store /\ calls[j] = 0) =>
         /\ store[j].status = "pending"
         /\ getReportHandler(store, j).status = "pending"

\* C3 witness: a pipeline that resolved and one that rejected, one call each.
C3_Witness ==
  \E j, k \in Jobs :
    /\ ppc[j] = "settled" /\ outcome[j][1].ok /\ calls[j] = 1
    /\ ppc[k] = "settled" /\ ~outcome[k][1].ok /\ calls[k] = 1

\* C4: pending rows carry neither result nor error, completed rows a result
\* and no error, failed rows an error and no result.
C4_ResultErrorByStatus ==
  \A id \in DOMAIN store :
    /\ store[id].status = "pending" => store[id].result = NULL /\ store[id].error = NULL
    /\ store[id].status = "completed" => store[id].result # NULL /\ store[id].error = NULL
    /\ store[id].status = "failed" => store[id].error # NULL /\ store[id].result = NULL

\* C5: once a settled pipeline's update is written, a resolved one has left
\* its report completed with its result, a rejected one failed with its message.
C5_TerminalWriteMatchesOutcome ==
  \A j \in Jobs :
    (outcome[j] # NULL /\ updq[j] = <<>>) =>
      LET report == getReport(store, j)[1] IN
      IF outcome[j][1].ok
        THEN report.status = "completed" /\ report.result = Some(outcome[j][1].result)
        ELSE report.status = "failed" /\ report.error = Some(outcome[j][1].msg)

isOrdered(qs) ==
  \A a, b \in 1..Len(qs) :
    a < b => \/ qs[a].count > qs[b].count
             \/ qs[a].count = qs[b].count /\ localeCompare(qs[a].question, qs[b].question) <= 0

\* C6: a completed report's questions are at most the top-N its submission
\* asked for, ordered by count descending, ties by question ascending.
C6_TopNOrdered ==
  \A id \in DOMAIN store :
    store[id].status = "completed" =>
      LET questions == getReport(store, id)[1].result[1].questions IN
      Len(questions) <= store[id].top_count /\ isOrdered(questions)

\* C7: the step that answers {reportId, status: pending} leaves the report in
\* the store, pending, and the pipeline at its first await; no pipeline runs
\* whose submission was not answered.
C7_AnswerBeforePipeline ==
  [][ \A j \in Jobs :
        /\ (~response[j].success /\ response'[j].success) =>
             /\ response'[j].reportId = j /\ response'[j].status = "pending"
             /\ j \in DOMAIN store' /\ store'[j].status = "pending"
             /\ ppc'[j] = "validate" /\ outcome'[j] = NULL /\ calls'[j] = 0
        /\ ppc'[j] # "idle" => response'[j].success ]_vars

\* C7 witness: a submission has its answer and its pipeline has not moved.
C7_Witness ==
  \E j \in Jobs : response[j].success /\ ppc[j] = "validate" /\ store[j].status = "pending"

\* C8: a query is answered not-found exactly for the ids with no row;
\* otherwise with the row's status, range and timestamps, with result exactly
\* when completed and error exactly when failed.
C8_QueryAnswer ==
  \A id \in ReportIds :
    LET answer == getReportHandler(store, id) IN
    /\ answer.http = HTTP_NOT_FOUND <=> id \notin DOMAIN store
    /\ id \in DOMAIN store =>
         /\ answer.status = store[id].status
         /\ answer.timeRange = store[id].time_range
         /\ answer.createdAt = store[id].created_at
         /\ answer.updatedAt = store[id].updated_at
         /\ answer.dataResult # NULL <=> store[id].status = "completed"
         /\ answer.dataError # NULL <=> store[id].status = "failed"

\* C9: a submission with an unrecognized range or a top-N that is not a
\* positive integer gets an error answer, no report and no pipeline.
C9_MalformedRejected ==
  \A j \in Jobs :
    (hpc[j] # "idle" /\ (local[j].range \notin Labels \/ local[j].top < 1)) =>
      /\ j \notin DOMAIN store
      /\ ppc[j] = "idle"
      /\ hpc[j] = "done" => ~response[j].success

\* C10: the answer to a submission follows its probe's status: 401 the
\* invalid-key error, 404 the invalid-project error, any other non-success
\* the validation-failed error, success no error.
C10_ProbeMapping ==
  \A j \in Jobs :
    local[j].probe # 0 =>
      IF local[j].probe = HTTP_OK
        THEN response[j].success /\ response[j].error = ""
        ELSE /\ ~response[j].success
             /\ local[j].probe = HTTP_UNAUTHORIZED =>
                  response[j].error = MsgInvalidKey /\ response[j].http = HTTP_UNAUTHORIZED
             /\ local[j].probe = HTTP_NOT_FOUND =>
                  response[j].error = MsgInvalidProject /\ response[j].http = HTTP_NOT_FOUND
             /\ local[j].probe \notin {HTTP_UNAUTHORIZED, HTTP_NOT_FOUND} =>
                  response[j].error = MsgValidateFailed /\ response[j].http = HTTP_SERVER_ERROR

\* C10 witness: one probe answered 401 and another 500, both submissions answered.
C10_Witness ==
  \E j, k \in Jobs :
    /\ local[j].probe = HTTP_UNAUTHORIZED /\ response[j].error = MsgInvalidKey
    /\ local[k].probe = HTTP_SERVER_ERROR /\ response[k].error = MsgValidateFailed

\* The dialogs among the recorded answers of fetchTranscriptDialog, in order.
RECURSIVE fetchedDialogs(_)
fetchedDialogs(fetched) ==
  IF fetched = <<>> THEN <<>>
  ELSE (IF Head(fetched) = NULL THEN <<>> ELSE <<Head(fetched)[1]>>)
         \o fetchedDialogs(Tail(fetched))

\* The batches a list of dialogs gives for a range at an instant.
batchesOf(dialogs, range, now) ==
  IF range = "today"
    THEN IF todayQuestions(dialogs, range, now) = <<>> THEN <<>>
         ELSE <<[date |-> 0, questions |-> todayQuestions(dialogs, range, now)]>>
    ELSE groupQuestionsByDate(dialogs, range, now)

\* C11: whichever dialog fetches fail, the loop goes through all summaries
\* and collects exactly the dialogs that were fetched, in summary order; the
\* batches are made of those, and the step that ends the loop settles the job
\* only when there is nothing to cluster, and then as resolved.
C11_FetchFailuresSkipped ==
  [][ LET handed == fetchedDialogs(obs'.fetched) IN
      /\ ppc'[theJob] = "dialogs" =>
           /\ pipe'[theJob].allDialogs = handed
           /\ Len(obs'.fetched) = pipe'[theJob].i - 1
      /\ (ppc[theJob] = "dialogs" /\ ppc'[theJob] # "dialogs") =>
           /\ Len(obs'.fetched) = pipe[theJob].n
           /\ IF batchesOf(handed, env.TIME_RANGE, clock) = <<>>
                THEN ppc'[theJob] = "settled" /\ outcome'[theJob][1].ok
                ELSE /\ ppc'[theJob] = "cluster"
                     /\ pipe'[theJob].batches = batchesOf(handed, env.TIME_RANGE, clock) ]_vars

\* C11 witness: a fetch failed, a later one succeeded, and the job's batch
\* went to clustering.
C11_Witness ==
  /\ Len(obs.fetched) = 2 /\ obs.fetched[1] = NULL /\ obs.fetched[2] # NULL
  /\ ppc[theJob] = "cluster"

\* C12: once a completion call of a well-formed submission has answered with
\* something that is not a JSON object with a questions field (no content
\* included), the job has settled as rejected.
C12_UnparsableFails ==
  (local[theJob].top >= 1 /\ \E k \in 1..Len(obs.replies) : obs.replies[k].kind # "json") =>
    ppc[theJob] = "settled" /\ ~outcome[theJob][1].ok

\* The usage the completion calls reported, summed (none reported: zero).
RECURSIVE reportedUsage(_)
reportedUsage(replies) ==
  IF replies = <<>> THEN [prompt_tokens |-> 0, completion_tokens |-> 0, total_tokens |-> 0]
  ELSE LET rest == reportedUsage(Tail(replies))
           u == IF Head(replies).usage = NULL
                  THEN [prompt_tokens |-> 0, completion_tokens |-> 0, total_tokens |-> 0]
                  ELSE Head(replies).usage[1]
       IN [prompt_tokens |-> u.prompt_tokens + rest.prompt_tokens,
           completion_tokens |-> u.completion_tokens + rest.completion_tokens,
           total_tokens |-> u.total_tokens + rest.total_tokens]

\* C15: a well-formed job over several days that resolved carries the sum of the usage
\* of all its completion calls, also of those that gave no cluster.
C15_UsageIsSumOfCalls ==
  (/\ outcome[theJob] # NULL /\ outcome[theJob][1].ok
   /\ local[theJob].range # "today" /\ local[theJob].top >= 1) =>
    LET usage == outcome[theJob][1].result.usage
        reported == reportedUsage(obs.replies)
    IN /\ usage.prompt_tokens = reported.prompt_tokens
       /\ usage.completion_tokens = reported.completion_tokens
       /\ usage.total_tokens = reported.total_tokens

\* C16: a well-formed job submitted for today has, while it clusters, one batch made in
\* the 'today' branch and is never in the loop over days.
C16_TodayOneBatch ==
  \A j \in Jobs :
    (local[j].range = "today" /\ local[j].top >= 1 /\ ppc[j] \in {"cluster", "delay"}) =>
      /\ ppc[j] = "cluster"
      /\ pipe[j].today
      /\ Len(pipe[j].batches) = 1

\* The list s in the order p, a permutation of its indices.
permuted(s, p) == [i \in 1..Len(s) |-> s[p[i]]]

\* C13: for a positive top-N, combineResults gives the same questions and the
\* same usage for every order of the per-batch results.
C13_OrderIndependent ==
  (output # NULL /\ input.top >= 1) =>
    \A p \in Permutations(1..Len(input.dailyResults)) :
      combineResults(permuted(input.dailyResults, p), input.top) = output[1]

\* All entries of all per-batch results, flattened.
RECURSIVE entriesOf(_)
entriesOf(dailyResults) ==
  IF dailyResults = <<>> THEN <<>>
  ELSE Head(dailyResults).questions \o entriesOf(Tail(dailyResults))

\* The sum of the counts of the entries whose text lower-cased and trimmed is key.
RECURSIVE countOf(_, _)
countOf(entries, key) ==
  IF entries = <<>> THEN 0
  ELSE (IF normalize(Head(entries).question) = key THEN Head(entries).count ELSE 0)
         + countOf(Tail(entries), key)

keysOf(entries) == {normalize(entries[i].question) : i \in 1..Len(entries)}

\* C14 as stated: for a positive top-N, every normalized text of the input
\* has exactly one output entry, carrying the sum of the counts of the entries
\* that share it.
C14_OneEntryPerText ==
  (output # NULL /\ input.top >= 1) =>
    LET entries == entriesOf(input.dailyResults)
        out == output[1].questions
    IN \A key \in keysOf(entries) :
         /\ Cardinality({a \in 1..Len(out) : out[a].question = key}) = 1
         /\ \A a \in 1..Len(out) :
              out[a].question = key => out[a].count = countOf(entries, key)

\* C14 amended: no two output entries share a question; every output entry is
\* a normalized text of the input with the sum of the counts of the entries
\* that share it; every normalized text has its entry when top-N does not cut
\* the list.
C14_MergedByNormalizedText ==
  output # NULL =>
    LET entries == entriesOf(input.dailyResults)
        out == output[1].questions
    IN /\ \A a, b \in 1..Len(out) : a # b => out[a].question # out[b].question
       /\ \A a \in 1..Len(out) :
            /\ out[a].question \in keysOf(entries)
            /\ out[a].count = countOf(entries, out[a].question)
       /\ Cardinality(keysOf(entries)) <= input.top =>
            \A key \in keysOf(entries) : \E a \in 1..Len(out) : out[a].question = key

\* C14 witness: {"a", 3} and {"A ", 2} in two batches came out as {"a", 5}.
C14_Witness ==
  /\ output # NULL
  /\ input.dailyResults = <<[questions |-> <<cluster("a", 3)>>, usage |-> usageOf(0, 1)],
                            [questions |-> <<cluster("A ", 2)>>, usage |-> usageOf(1, 1)]>>
  /\ output[1].questions = <<cluster("a", 5)>>

\* C17: for every label and instant the window has start <= end <= now, and
\* starts at midnight of today, of yesterday, of the day 7 or 30 days before
\* today, of the first day of the month, or at the epoch.
C17_WindowBounds ==
  output # NULL =>
    LET c == output[1]
        day == input.now \div TicksPerDay
        firstOfMonth == CHOOSE d \in 0..day : d % DaysPerMonth = 0 /\ day - d < DaysPerMonth
    IN /\ c.startDate <= c.endDate
       /\ c.endDate <= input.now
       /\ input.range = "today" => c.startDate = day * TicksPerDay
       /\ input.range = "yesterday" => c.startDate = (day - 1) * TicksPerDay
       /\ input.range = "last7" => c.startDate = (day - 7) * TicksPerDay
       /\ input.range = "last30" => c.startDate = (day - 30) * TicksPerDay
       /\ input.range = "monthToDate" => c.startDate = firstOfMonth * TicksPerDay
       /\ input.range = "alltime" => c.startDate = 0

\* C17 witness: yesterday's window, resolved after midnight, ends before now;
\* a month-to-date window resolved in mid-month starts before today.
C17_Witness ==
  /\ output # NULL
  /\ \/ input.range = "yesterday" /\ output[1].endDate < input.now
     \/ input.range = "monthToDate" /\ output[1].startDate < midnight(input.now)

\* C18: a createReport for an id that has a row rejects and changes nothing;
\* for a new id it resolves and adds a pending row with no result, no error
\* and both timestamps at the call's instant, leaving the other rows alone.
C18_CreateReport ==
  [][ (input # <<>> /\ input' = Tail(input) /\ Head(input).op = "createReport") =>
        LET id == Head(input).id IN
        IF id \in DOMAIN store
          THEN output'[1].rejected /\ store' = store
          ELSE /\ ~output'[1].rejected
               /\ DOMAIN store' = DOMAIN store \cup {id}
               /\ \A i \in DOMAIN store : store'[i] = store[i]
               /\ store'[id].status = "pending"
               /\ store'[id].result = NULL /\ store'[id].error = NULL
               /\ store'[id].created_at = Head(input).now
               /\ store'[id].updated_at = store'[id].created_at ]_vars

\* C18 witness: a createReport was refused for an id whose report had
\* already been completed.
C18_Witness ==
  /\ output # NULL /\ output[1].op = "createReport" /\ output[1].rejected
  /\ store[output[1].id].status = "completed"

\* C19: an updateReport for an id that has no row rejects.
C19_UpdateMissingFails ==
  (output # NULL /\ output[1].op = "updateReport" /\ ~output[1].found) => output[1].rejected

\* C20: updated_at is never before created_at; a row's created_at does not
\* change and its updated_at does not go back.
C20_Timestamps ==
  [][ /\ \A id \in DOMAIN store' : store'[id].updated_at >= store'[id].created_at
      /\ \A id \in DOMAIN store \cap DOMAIN store' :
           /\ store'[id].created_at = store[id].created_at
           /\ store'[id].updated_at >= store[id].updated_at ]_vars

\* C20 witness: a report updated twice, the second time at a later instant
\* than it was created.
C20_Witness ==
  \E id \in DOMAIN store :
    /\ store[id].status = "failed" /\ store[id].result # NULL
    /\ store[id].updated_at > store[id].created_at


(***************************************************************************)
(* The batcher (GroupSpec).                                                *)
(***************************************************************************)
\* The positions of the turns of a dialog whose timestamp lies in the window.
inWindowTurns(dialog, range, now) ==
  LET c == getTimeRangeConstraints(range, now) IN
  {k \in DOMAIN dialog :
     /\ dialog[k].startTime # NULL
     /\ c.startDate <= dialog[k].startTime[1]
     /\ dialog[k].startTime[1] <= c.endDate}

\* Those of them that carry a question.
questionTurns(dialog, range, now) ==
  {k \in inWindowTurns(dialog, range, now) :
     dialog[k].type = "request" /\ dialog[k].query \notin {NULL, Some("")}}

\* The calendar date of the first in-window turn.
dateKey(dialog, range, now) ==
  LET S == inWindowTurns(dialog, range, now)
      first == CHOOSE k \in S : \A l \in S : k <= l
  IN dialog[first].startTime[1] \div TicksPerDay

\* The dialogs of a list that have a question in the window.
contributors(dialogs, range, now) ==
  {i \in DOMAIN dialogs : questionTurns(dialogs[i], range, now) # {}}

\* The questions of the in-window turns of a dialog, in turn order.
turnQueries(dialog, range, now) ==
  LET S == questionTurns(dialog, range, now)
      nth(n) == CHOOSE k \in S : Cardinality({l \in S : l <= k}) = n
  IN [n \in 1..Cardinality(S) |-> dialog[nth(n)].query[1]]

\* The questions of the dialogs i, i+1, ... of a list whose date key is date.
RECURSIVE questionsForDate(_, _, _, _, _)
questionsForDate(dialogs, i, date, range, now) ==
  IF i > Len(dialogs) THEN <<>>
  ELSE (IF i \in contributors(dialogs, range, now)
             /\ dateKey(dialogs[i], range, now) = date
          THEN turnQueries(dialogs[i], range, now) ELSE <<>>)
         \o questionsForDate(dialogs, i + 1, date, range, now)

\* C21: for a range other than today, groupQuestionsByDate emits exactly one
\* batch for each distinct date key of the dialogs that have a question in the
\* window, no batch has zero questions, and the batches are in strictly
\* descending order of date.
C21_OneBatchPerDate ==
  output # NULL =>
    LET out == output[1]
        keys == {dateKey(input.dialogs[i], input.range, input.now) :
                   i \in contributors(input.dialogs, input.range, input.now)}
    IN /\ {out[b].date : b \in DOMAIN out} = keys
       /\ Len(out) = Cardinality(keys)
       /\ \A b \in DOMAIN out : out[b].questions # <<>>
       /\ \A a, b \in DOMAIN out : a < b => out[a].date > out[b].date

\* Two batches came out of two dialogs listed with the older date first.
C21_Witness ==
  /\ output # NULL /\ Len(output[1]) >= 2
  /\ \E i, k \in contributors(input.dialogs, input.range, input.now) :
       /\ i < k
       /\ dateKey(input.dialogs[i], input.range, input.now)
            < dateKey(input.dialogs[k], input.range, input.now)

\* C22: every dialog with a question in the window contributes the questions
\* of all its in-window turns to exactly one batch, the batch of the calendar
\* date of its first in-window turn, even when later turns fall on other days;
\* turns without a timestamp or outside the window, and dialogs without an
\* in-window turn, contribute nothing.
C22_FirstTurnDate ==
  output # NULL =>
    LET out == output[1]
        D == input.dialogs
    IN /\ \A b \in DOMAIN out :
            out[b].questions = questionsForDate(D, 1, out[b].date, input.range, input.now)
       /\ \A i \in contributors(D, input.range, input.now) :
            Cardinality({b \in DOMAIN out :
                           out[b].date = dateKey(D[i], input.range, input.now)}) = 1

\* A dialog with in-window questions on two days and a turn left out shared
\* its batch with another dialog.
C22_Witness ==
  /\ output # NULL
  /\ \E i, k \in contributors(input.dialogs, input.range, input.now) :
       LET d == input.dialogs[i]
           key == dateKey(d, input.range, input.now)
       IN /\ i # k
          /\ dateKey(input.dialogs[k], input.range, input.now) = key
          /\ \E t \in questionTurns(d, input.range, input.now) :
               d[t].startTime[1] \div TicksPerDay # key
          /\ inWindowTurns(d, input.range, input.now) # DOMAIN d
          /\ \E b \in DOMAIN output[1] :
               output[1][b].date = key /\ Len(output[1][b].questions) >= 3


(***************************************************************************)
(* The order of the external calls of one job (PipeSpec).                  *)
(***************************************************************************)
\* The moves of a job's position: each position waits for one call or timer.
pipelineMoves ==
  {<<"idle", "validate">>, <<"validate", "list">>, <<"list", "dialogs">>,
   <<"list", "cluster">>, <<"dialogs", "cluster">>, <<"cluster", "delay">>,
   <<"delay", "cluster">>}
    \cup {<<p, "settled">> : p \in {"validate", "list", "dialogs", "cluster", "delay"}}

\* C23: within one job the external calls follow one another: a dialog fetch
\* is answered only after the listing and after the fetches before it, the
\* batches start only when every summary's fetch has succeeded or failed, a
\* completion call is answered only after the last fetch, the next completion
\* call waits for the answer of the one before it, and the batches are taken
\* in the order the batcher emitted them.
C23_OneCallAtATime ==
  [][ LET j == theJob IN
      /\ ppc'[j] # ppc[j] => <<ppc[j], ppc'[j]>> \in pipelineMoves
      /\ obs'.fetched # obs.fetched =>
           /\ ppc[j] = "dialogs" /\ obs.replies = <<>>
           /\ Len(obs.fetched) = pipe[j].i - 1
           /\ Len(obs'.fetched) = Len(obs.fetched) + 1
           /\ SubSeq(obs'.fetched, 1, Len(obs.fetched)) = obs.fetched
           /\ IF ppc'[j] = "dialogs"
                THEN pipe'[j].i = pipe[j].i + 1 /\ pipe'[j].n = pipe[j].n
                ELSE pipe[j].i = pipe[j].n
      /\ obs'.replies # obs.replies =>
           /\ ppc[j] = "cluster" /\ ppc'[j] \in {"delay", "settled"}
           /\ obs'.fetched = obs.fetched
           /\ Len(obs'.replies) = Len(obs.replies) + 1
           /\ SubSeq(obs'.replies, 1, Len(obs.replies)) = obs.replies
           /\ pipe[j].batches # <<>>
           /\ ppc'[j] = "delay" => pipe'[j].batches = Tail(pipe[j].batches)
      /\ (ppc[j] = "delay" /\ ppc'[j] = "cluster") =>
           pipe'[j].batches = pipe[j].batches /\ obs' = obs
      /\ (ppc[j] \in {"list", "dialogs"} /\ ppc'[j] = "cluster") =>
           pipe'[j].batches =
             batchesOf(fetchedDialogs(obs'.fetched), env.TIME_RANGE, clock) ]_vars

\* C23 witness: two fetches and then two completion calls were answered, and
\* the job resolved.
C23_Witness ==
  /\ Len(obs.fetched) = 2 /\ Len(obs.replies) = 2
  /\ ppc[theJob] = "settled" /\ outcome[theJob] # NULL /\ outcome[theJob][1].ok

\* C24: when the dialog loop of a 'today' job ends without an in-window
\* question, no completion call is made: the job resolves in that step with
\* the empty result and zero usage, and no completion call is answered later.
C24_EmptyMakesNoCall ==
  [][ LET j == theJob
          handed == fetchedDialogs(obs'.fetched)
      IN /\ ( /\ ppc[j] \in {"list", "dialogs"} /\ ppc'[j] \notin {"list", "dialogs"}
              /\ outcome'[j] = NULL \/ outcome'[j][1].ok
              /\ env.TIME_RANGE = "today"
              /\ todayQuestions(handed, "today", clock) = <<>> )
           => /\ ppc'[j] = "settled"
              /\ outcome'[j] = Some(fulfilled(emptyResult))
              /\ emptyResult.questions = <<>> /\ emptyResult.usage.total_tokens = 0
              /\ emptyResult.usage.estimated_cost_usd = 0
              /\ obs'.replies = <<>>
         /\ ppc[j] = "settled" => obs'.replies = obs.replies ]_vars

\* C24 witness: a 'today' job fetched a dialog with no question in the window
\* and completed with the empty result, no completion call answered.
C24_Witness ==
  /\ local[theJob].range = "today" /\ env.TIME_RANGE = "today"
  /\ \E k \in DOMAIN obs.fetched : obs.fetched[k] # NULL
  /\ obs.replies = <<>>
  /\ theJob \in DOMAIN store /\ store[theJob].status = "completed"
  /\ store[theJob].result = Some(JSONstringify(emptyResult))


(***************************************************************************)
(* Jobs side by side (Spec).                                               *)
(***************************************************************************)
\* What a pipeline's terminal update sets in a row.
terminalFields(row) == <<row.status, row.result, row.error>>

\* C25: the status, result or error of a report changes only in a step that
\* takes an update off the chain of the job that created that report, after
\* that job's own pipeline settled, and the row then tells that job's own
\* outcome; no other row changes in the step.
C25_WritesOwnReport ==
  [][ \A id \in DOMAIN store :
        (id \in DOMAIN store' /\ terminalFields(store'[id]) # terminalFields(store[id])) =>
          /\ id \in Jobs /\ outcome[id] # NULL
          /\ updq[id] # <<>> /\ updq'[id] = Tail(updq[id])
          /\ \A k \in Jobs \ {id} : updq'[k] = updq[k]
          /\ \A other \in DOMAIN store \ {id} : store'[other] = store[other]
          /\ IF outcome[id][1].ok
               THEN /\ store'[id].status = "completed"
                    /\ store'[id].result = Some(JSONstringify(outcome[id][1].result))
               ELSE /\ store'[id].status = "failed"
                    /\ store'[id].error \in {store[id].error, Some(outcome[id][1].msg)} ]_vars

\* C25 witness: two jobs ended differently and each report tells its own end.
C25_Witness ==
  \E j, k \in Jobs :
    /\ j # k /\ updq[j] = <<>> /\ updq[k] = <<>>
    /\ outcome[j] # NULL /\ outcome[j][1].ok /\ store[j].status = "completed"
    /\ outcome[k] # NULL /\ ~outcome[k][1].ok /\ store[k].status = "failed"

\* C26: with only well-formed submissions, a job takes the 'today' branch
\* exactly when it was submitted for today, and its per-batch results and its
\* resolved result hold at most the top-N questions it was submitted with.
C26_OwnConfiguration ==
  (\A k \in Jobs : hpc[k] = "idle" \/ (local[k].range \in Labels /\ local[k].top >= 1)) =>
    \A j \in Jobs :
      /\ ppc[j] \in {"cluster", "delay"} =>
           /\ pipe[j].today <=> local[j].range = "today"
           /\ \A b \in DOMAIN pipe[j].dailyResults :
                Len(pipe[j].dailyResults[b].questions) <= local[j].top
      /\ (outcome[j] # NULL /\ outcome[j][1].ok) =>
           Len(outcome[j][1].result.questions) <= local[j].top


(***************************************************************************)
(* Credentials (ConfigSpec).                                               *)
(***************************************************************************)
\* C27: every request of the pipeline carries the project id and the API key
\* that the handler's probe was sent with, also when the body overrides the
\* process-level defaults.
C27_ProbedCredentialsUsed ==
  output # NULL =>
    \A r \in DOMAIN output[1].requests :
      /\ output[1].requests[r].PROJECT_ID = output[1].probe.PROJECT_ID
      /\ output[1].requests[r].VF_API_KEY = output[1].probe.VF_API_KEY


(***************************************************************************)
(* Every report ends (PipeFairSpec).                                       *)
(***************************************************************************)
\* C28: a report of a well-formed submission that is still pending belongs
\* to a submission that still has a step to take (an answer it waits for, or
\* an update to write), so that, every call returning, the report reaches a
\* terminal status.
C28_PendingHasAStepLeft ==
  \A j \in Jobs :
    (j \in DOMAIN store /\ store[j].status = "pending" /\ local[j].top >= 1) =>
      \/ hpc[j] \in {"creating", "probing"}
      \/ ppc[j] \in {"validate", "list", "dialogs", "cluster", "delay"}
      \/ updq[j] # <<>>

(***************************************************************************)
(* One window for one job (ExamSpec).                                      *)
(***************************************************************************)
\* C29: the turns of one job that have the same timestamp are all inside the
\* window or all outside it, whenever each of them is examined, also across
\* local midnight.
C29_SameVerdict ==
  \A a, b \in DOMAIN output.verdicts : output.verdicts[a] = output.verdicts[b]


====
